---- MODULE Spec2Model ----
(***************************************************************************)
(* A model of rosgo's node registries (ros/node.go) and of the topic      *)
(* publisher with its remote-subscriber sessions (publisher.go).          *)
(*                                                                         *)
(* Three specifications share the variables:                              *)
(*   SpecNode   the node's publisher and subscriber registries            *)
(*   Spec       one publisher, its accept loop, its control task and its  *)
(*              sessions, with small bounds and the full socket log       *)
(*   SpecBurst  one publisher with one accepted session and a long burst  *)
(*              of Publish calls during which no flush tick fires         *)
(***************************************************************************)
EXTENDS Integers, Sequences, FiniteSets, TLC

(***************************************************************************)
(* Bounds of the model.                                                    *)
(***************************************************************************)
MaxCalls == 3
MaxPublish == 2
MaxConns == 1
BurstLen == 150
MaxJobs == 1
MaxRpc == 2
MaxSignals == 2

(***************************************************************************)
(* Constants of the program.                                               *)
(***************************************************************************)
PubChanCap == 10
SessChanCap == 10
queueMaxSize == 100
FlushInterval == 10
jobChanCap == 100
APIStatusFailure == 0
APIStatusSuccess == 1

Names == {"a", "b", "c"}
Callbacks == {"f", "g"}
Conns == 1..MaxConns
TypeNames == {"T", "U"}
MD5Sums == {"h", "k"}
NoObj == 0

VARIABLES
    \* ---- defaultNode
    remapTable,     \* nameResolver's table: Names -> Names
    publishers,     \* node.publishers: Names -> publisher id, NoObj when absent
    subscribers,    \* node.subscribers: Names -> [id, callbacks], id NoObj when absent
    masterCalls,    \* the calls made to the master, in order
    nextObj,        \* the next object identity handed out by new(...)
    pubReturns,     \* what each publisher-creation call returned, in call order
    subReturns,     \* what each NewSubscriber call returned, in call order
    exited,         \* the process ended on a fatal error
    \* ---- defaultNode: liveness, background tasks, slave API, Shutdown
    ok,             \* node.ok, the liveness flag
    okWriters,      \* who has written node.ok since construction
    handlerPc,      \* the signal handler task: "starting" (not yet at its
                    \* receive), "waiting" or "done"
    nodePc,         \* the caller of Node.Shutdown: "idle", then the phase it
                    \* is in, then "returned"
    phases,         \* the phases of Node.Shutdown that are finished, in order
    subTask,        \* the task of each subscriber (sub.start): "none",
                    \* "running", "stopping" or "exited"
    pubListChan,    \* sub.pubListChan of each subscriber
    jobChan,        \* node.jobChan: the number of queued jobs
    servers,        \* node.servers: "none", "up" or "down" per service name
    rpcListener,    \* node.xmlrpcListener: "open" or "closed"
    rpcServer,      \* the task http.Serve: "serving" or "stopped"
    rpcCalls,       \* the number of slave API calls answered
    rpcResult,      \* the last slave API call and its answer
    signals,        \* the number of interrupt signals the process was sent
    spinPc,         \* the caller of Spin: "idle", "test" (at node.OK()),
                    \* "select", "job" (running a job) or "returned"
    \* ---- defaultPublisher
    published,      \* the payloads passed to Publish, in call order
    userPc,         \* the caller of Publish: "idle" or "sending"
    shutPc,         \* the caller of Shutdown: "idle", "sending" or "done"
    msgChan,        \* pub.msgChan, a buffered channel
    ctrl,           \* the control task (pub.start): [pc, msg, idx]
    listener,       \* pub.listener: "open" or "closed"
    acceptPc,       \* pub.listenRemoteSubscriber: "accept", "sendErr", "exited"
    sessions,       \* pub.sessions, the list of live sessions
    unregCalls,     \* the number of unregisterPublisher calls
    \* ---- remoteSubscriberSession, one per connection
    sessPc,         \* "none", "readHeader", "writeHeader", "streaming",
                    \* "reporting" (sending its error), "returned"
    headerMap,      \* the header read from the peer, NoHeader before
    sessErr,        \* why the session failed: "none", "read", "mismatch",
                    \* "writeHeader", "io"
    sessMsgChan,    \* session.msgChan, a buffered channel
    queue,          \* the pending queue of start()
    connState,      \* session.conn: "none", "open" or "closed"
    connLog,        \* what was written to session.conn, in order
    timer,          \* per session, the ms gone since its streaming select
                    \* was entered and time.After armed
    sinceTick       \* per session, the ms gone since its flush timer last
                    \* fired, or since it began to stream

coordVars == <<ok, okWriters, handlerPc, nodePc, phases, jobChan, servers,
               rpcListener, rpcServer, rpcCalls, rpcResult>>
spinVars == <<signals, spinPc>>
nodeVars == <<remapTable, publishers, subscribers, masterCalls, nextObj,
              pubReturns, subReturns, exited, subTask, pubListChan, coordVars,
              spinVars>>
pubVars == <<published, userPc, shutPc, msgChan, ctrl, listener, acceptPc,
             sessions, unregCalls>>
timeVars == <<timer, sinceTick>>
sessVars == <<sessPc, headerMap, sessErr, sessMsgChan, queue, connState, connLog,
              timeVars>>
vars == <<nodeVars, pubVars, sessVars>>

(***************************************************************************)
(* Sequences.                                                              *)
(***************************************************************************)
Last(s) == s[Len(s)]
Min(a, b) == IF a <= b THEN a ELSE b
Front(s) == SubSeq(s, 1, Len(s) - 1)

RECURSIVE SelectNames(_, _)
\* the entries of a call log that are about name n, in order
SelectNames(log, n) ==
    IF log = <<>> THEN <<>>
    ELSE IF Head(log).name = n
         THEN <<Head(log)>> \o SelectNames(Tail(log), n)
         ELSE SelectNames(Tail(log), n)

CountCalls(method, n) ==
    Cardinality({i \in DOMAIN masterCalls :
                    masterCalls[i] = [method |-> method, name |-> n]})

(***************************************************************************)
(* The node: name resolution and the registries.                          *)
(***************************************************************************)
\* nameResolver.remap: the remapped name of a topic, the topic itself when
\* the table holds no entry for it
remap(topic) == remapTable[topic]

NoSubscriber == [id |-> NoObj, callbacks |-> <<>>]

\* the publisher URI lists the master can answer registerSubscriber with
MasterLists == {<<>>, <<"u1">>}

\* the publisher URI lists a publisherUpdate call can carry
UriLists == {<<>>, <<"u1">>, <<"u2", "u1">>}

\* the protocol lists a requestTopic call can carry
ProtocolLists == {<<>>, <<"UDPROS">>, <<"TCPROS">>, <<"UDPROS", "TCPROS">>}

\* no slave API call was answered yet
NoResult == [method |-> "none", topic |-> "", arg |-> <<>>, code |-> 0,
             message |-> "", value |-> <<>>]

\* newDefaultSubscriber(name, msgType, callback)
newDefaultSubscriber(id, callback) == [id |-> id, callbacks |-> <<callback>>]

\* newDefaultNode: empty registries, nothing registered yet
NodeFresh ==
    /\ publishers = [n \in Names |-> NoObj]
    /\ subscribers = [n \in Names |-> NoSubscriber]
    /\ masterCalls = <<>>
    /\ nextObj = 1
    /\ pubReturns = <<>>
    /\ subReturns = <<>>
    /\ exited = FALSE
    /\ subTask = [n \in Names |-> "none"]
    /\ pubListChan = [n \in Names |-> <<>>]
    /\ ok = TRUE
    /\ okWriters = {}
    /\ handlerPc = "waiting"
    /\ nodePc = "idle"
    /\ phases = <<>>
    /\ jobChan = 0
    /\ servers = [n \in Names |-> "none"]
    /\ rpcListener = "open"
    /\ rpcServer = "serving"
    /\ rpcCalls = 0
    /\ rpcResult = NoResult
    /\ signals = 0
    /\ spinPc = "idle"

\* every remapping table the command line can give
NodeInit ==
    /\ remapTable \in [Names -> Names]
    /\ NodeFresh

\* a node without remappings whose creation calls are not followed
NodeIdle ==
    /\ remapTable = [n \in Names |-> n]
    /\ NodeFresh

CallsMade == Len(pubReturns) + Len(subReturns)

\* defaultNode.NewPublisherWithCallbacks(topic, ...); registered: the master answered
\* registerPublisher and the listener could be bound
NewPublisherWithCallbacks(topic, registered) ==
    LET name == remap(topic) IN
    /\ UNCHANGED <<remapTable, subscribers, subReturns, subTask, pubListChan,
                   coordVars>>
    /\ IF publishers[topic] # NoObj
       THEN /\ pubReturns' = Append(pubReturns,
                   [topic |-> topic, name |-> name, pub |-> publishers[topic]])
            /\ UNCHANGED <<publishers, masterCalls, nextObj, exited>>
       ELSE /\ masterCalls' = Append(masterCalls,
                   [method |-> "registerPublisher", name |-> name])
            /\ IF registered
               THEN /\ publishers' = [publishers EXCEPT ![name] = nextObj]
                    /\ nextObj' = nextObj + 1
                    /\ pubReturns' = Append(pubReturns,
                           [topic |-> topic, name |-> name, pub |-> nextObj])
                    /\ UNCHANGED exited
               ELSE /\ exited' = TRUE
                    /\ UNCHANGED <<publishers, nextObj, pubReturns>>

\* defaultNode.NewPublisher(topic, msgType)
NewPublisher(topic, registered) ==
    NewPublisherWithCallbacks(remap(topic), registered)

\* NewSubscriber with the registry looked up under the caller's topic
\* instead of the resolved name
NewSubscriberByTopic(topic, callback, registered) ==
    LET name == remap(topic) IN
    /\ UNCHANGED <<remapTable, publishers, pubReturns, coordVars>>
    /\ IF subscribers[topic].id = NoObj
       THEN /\ masterCalls' = Append(masterCalls,
                   [method |-> "registerSubscriber", name |-> name])
            /\ IF registered
               THEN /\ subscribers' = [subscribers EXCEPT
                           ![name] = newDefaultSubscriber(nextObj, callback)]
                    /\ nextObj' = nextObj + 1
                    /\ subTask' = [subTask EXCEPT ![name] = "running"]
                    /\ \E list \in MasterLists :
                          pubListChan' = [pubListChan EXCEPT ![name] = <<list>>]
                    /\ subReturns' = Append(subReturns,
                           [topic |-> topic, name |-> name, sub |-> nextObj,
                            callback |-> callback])
                    /\ UNCHANGED exited
               ELSE /\ exited' = TRUE
                    /\ UNCHANGED <<subscribers, nextObj, subReturns, subTask,
                                   pubListChan>>
       ELSE /\ subscribers' = [subscribers EXCEPT
                   ![topic].callbacks = Append(@, callback)]
            /\ subReturns' = Append(subReturns,
                   [topic |-> topic, name |-> name, sub |-> subscribers[topic].id,
                    callback |-> callback])
            /\ UNCHANGED <<masterCalls, nextObj, exited, subTask, pubListChan>>

\* defaultNode.NewSubscriber(topic, msgType, callback); registered: the
\* master answered registerSubscriber with a list of strings.  The new
\* subscriber's task is started and the master's list is sent to it.
NewSubscriber(topic, callback, registered) ==
    LET name == remap(topic) IN
    /\ UNCHANGED <<remapTable, publishers, pubReturns, coordVars>>
    /\ IF subscribers[name].id = NoObj
       THEN /\ masterCalls' = Append(masterCalls,
                   [method |-> "registerSubscriber", name |-> name])
            /\ IF registered
               THEN /\ subscribers' = [subscribers EXCEPT
                           ![name] = newDefaultSubscriber(nextObj, callback)]
                    /\ nextObj' = nextObj + 1
                    /\ subTask' = [subTask EXCEPT ![name] = "running"]
                    /\ \E list \in MasterLists :
                          pubListChan' = [pubListChan EXCEPT ![name] = <<list>>]
                    /\ subReturns' = Append(subReturns,
                           [topic |-> topic, name |-> name, sub |-> nextObj,
                            callback |-> callback])
                    /\ UNCHANGED exited
               ELSE /\ exited' = TRUE
                    /\ UNCHANGED <<subscribers, nextObj, subReturns, subTask,
                                   pubListChan>>
       ELSE /\ subscribers' = [subscribers EXCEPT
                   ![name].callbacks = Append(@, callback)]
            /\ subReturns' = Append(subReturns,
                   [topic |-> topic, name |-> name, sub |-> subscribers[name].id,
                    callback |-> callback])
            /\ UNCHANGED <<masterCalls, nextObj, exited, subTask, pubListChan>>

CallNewPublisher ==
    /\ ~exited /\ CallsMade < MaxCalls
    /\ \E topic \in Names, registered \in BOOLEAN : NewPublisher(topic, registered)
    /\ UNCHANGED <<pubVars, sessVars, spinVars>>

CallNewPublisherWithCallbacks ==
    /\ ~exited /\ CallsMade < MaxCalls
    /\ \E topic \in Names, registered \in BOOLEAN :
           NewPublisherWithCallbacks(topic, registered)
    /\ UNCHANGED <<pubVars, sessVars, spinVars>>

CallNewSubscriber ==
    /\ ~exited /\ CallsMade < MaxCalls
    /\ \E topic \in Names, callback \in Callbacks, registered \in BOOLEAN :
           NewSubscriber(topic, callback, registered)
    /\ UNCHANGED <<pubVars, sessVars, spinVars>>

(***************************************************************************)
(* The publisher (publisher.go): Publish, Shutdown, the control task      *)
(* pub.start, the accept loop pub.listenRemoteSubscriber.                 *)
(***************************************************************************)
\* pub.msgType.Name() and pub.msgType.MD5Sum()
pubTypeName == "T"
pubMD5Sum == "h"

\* newDefaultPublisher: channels made, listener bound, no connection yet.
\* pub.sessionErrorChan is never made: it stays a nil channel.
PubInit ==
    /\ published = <<>>
    /\ userPc = "idle"
    /\ shutPc = "idle"
    /\ msgChan = <<>>
    /\ ctrl = [pc |-> "select", msg |-> 0, idx |-> 0]
    /\ listener = "open"
    /\ acceptPc = "accept"
    /\ sessions = <<>>
    /\ unregCalls = 0

NoHeader == [type |-> "", md5sum |-> ""]

SessInit ==
    /\ sessPc = [c \in Conns |-> "none"]
    /\ headerMap = [c \in Conns |-> NoHeader]
    /\ sessErr = [c \in Conns |-> "none"]
    /\ sessMsgChan = [c \in Conns |-> <<>>]
    /\ queue = [c \in Conns |-> <<>>]
    /\ connState = [c \in Conns |-> "none"]
    /\ connLog = [c \in Conns |-> <<>>]
    /\ timer = [c \in Conns |-> 0]
    /\ sinceTick = [c \in Conns |-> 0]

\* Publish(msg) is entered: msg.Serialize() is the next payload.  A payload
\* is named by its position in the sequence of Publish calls.
PublishCall(limit) ==
    /\ userPc = "idle"
    /\ Len(published) < limit
    /\ published' = Append(published, Len(published) + 1)
    /\ userPc' = "sending"
    /\ UNCHANGED <<shutPc, msgChan, ctrl, listener, acceptPc, sessions, unregCalls>>
    /\ UNCHANGED <<nodeVars, sessVars>>

\* pub.msgChan <- payload: completes when the buffer has room
Publish ==
    /\ userPc = "sending"
    /\ Len(msgChan) < PubChanCap
    /\ msgChan' = Append(msgChan, Last(published))
    /\ userPc' = "idle"
    /\ UNCHANGED <<published, shutPc, ctrl, listener, acceptPc, sessions, unregCalls>>
    /\ UNCHANGED <<nodeVars, sessVars>>

\* Shutdown() is entered: pub.shutdownChan <- struct{}{} on an unbuffered
\* channel waits for the control task to receive
ShutdownCall ==
    /\ shutPc = "idle"
    /\ shutPc' = "sending"
    /\ UNCHANGED <<published, userPc, msgChan, ctrl, listener, acceptPc, sessions,
                   unregCalls>>
    /\ UNCHANGED <<nodeVars, sessVars>>

\* case msg := <-pub.msgChan
CtrlRecvMsg ==
    /\ ctrl.pc = "select"
    /\ msgChan # <<>>
    /\ ctrl' = [pc |-> "fanout", msg |-> Head(msgChan), idx |-> 1]
    /\ msgChan' = Tail(msgChan)
    /\ UNCHANGED <<published, userPc, shutPc, listener, acceptPc, sessions, unregCalls>>
    /\ UNCHANGED <<nodeVars, sessVars>>

\* session.msgChan <- msg for the session the loop stands at: completes when
\* that session's buffer has room
CtrlSend ==
    /\ ctrl.pc = "fanout"
    /\ ctrl.idx <= Len(sessions)
    /\ LET s == sessions[ctrl.idx] IN
       /\ Len(sessMsgChan[s]) < SessChanCap
       /\ sessMsgChan' = [sessMsgChan EXCEPT ![s] = Append(@, ctrl.msg)]
    /\ ctrl' = [ctrl EXCEPT !.idx = @ + 1]
    /\ UNCHANGED <<published, userPc, shutPc, msgChan, listener, acceptPc, sessions,
                   unregCalls>>
    /\ UNCHANGED <<sessPc, headerMap, sessErr, queue, connState, connLog, timeVars>>
    /\ UNCHANGED nodeVars

\* e == nil: the loop over pub.sessions ends, back to the select
CtrlFanoutDone ==
    /\ ctrl.pc = "fanout"
    /\ ctrl.idx > Len(sessions)
    /\ ctrl' = [pc |-> "select", msg |-> 0, idx |-> 0]
    /\ UNCHANGED <<published, userPc, shutPc, msgChan, listener, acceptPc, sessions,
                   unregCalls>>
    /\ UNCHANGED <<nodeVars, sessVars>>

\* case err := <-pub.listenerErrorChan: close the listener and return
CtrlListenerError ==
    /\ ctrl.pc = "select"
    /\ acceptPc = "sendErr"
    /\ listener' = "closed"
    /\ ctrl' = [pc |-> "done", msg |-> 0, idx |-> 0]
    /\ acceptPc' = "exited"
    /\ UNCHANGED <<published, userPc, shutPc, msgChan, sessions, unregCalls>>
    /\ UNCHANGED <<nodeVars, sessVars>>

\* pub.sessionErrorChan was made: newDefaultPublisher makes shutdownChan,
\* msgChan and listenerErrorChan and leaves sessionErrorChan nil
sessionErrorChanMade == FALSE

\* case session, err := <-pub.sessionErrorChan: the rendezvous with the
\* deferred send of a failed session, which then ends.  The value received
\* is the error, which equals no element of pub.sessions, so the loop
\* removes nothing.  A receive from a nil channel is never ready.
CtrlSessionError(s) ==
    /\ ctrl.pc = "select"
    /\ sessionErrorChanMade
    /\ sessPc[s] = "reporting"
    /\ sessPc' = [sessPc EXCEPT ![s] = "returned"]
    /\ UNCHANGED <<published, userPc, shutPc, msgChan, ctrl, listener, acceptPc,
                   sessions, unregCalls>>
    /\ UNCHANGED <<headerMap, sessErr, sessMsgChan, queue, connState, connLog,
                   timeVars>>
    /\ UNCHANGED nodeVars

\* case <-pub.shutdownChan: close the listener, call unregisterPublisher
\* (its error is only logged), then signal the sessions
CtrlShutdown ==
    /\ ctrl.pc = "select"
    /\ shutPc = "sending"
    /\ shutPc' = "done"
    /\ listener' = "closed"
    /\ unregCalls' = unregCalls + 1
    /\ ctrl' = [pc |-> "quit", msg |-> 0, idx |-> 1]
    /\ UNCHANGED <<published, userPc, msgChan, acceptPc, sessions>>
    /\ UNCHANGED <<nodeVars, sessVars>>

\* session.quitChan <- struct{}{} for the session the loop stands at, an
\* unbuffered channel the session receives from only in its streaming select
CtrlQuitSession ==
    /\ ctrl.pc = "quit"
    /\ ctrl.idx <= Len(sessions)
    /\ LET s == sessions[ctrl.idx] IN
       /\ sessPc[s] = "streaming"
       /\ sessPc' = [sessPc EXCEPT ![s] = "returned"]
    /\ ctrl' = [ctrl EXCEPT !.idx = @ + 1]
    /\ UNCHANGED <<published, userPc, shutPc, msgChan, listener, acceptPc, sessions,
                   unregCalls>>
    /\ UNCHANGED <<headerMap, sessErr, sessMsgChan, queue, connState, connLog,
                   timeVars>>
    /\ UNCHANGED nodeVars

\* pub.sessions.Init() and return
CtrlQuitDone ==
    /\ ctrl.pc = "quit"
    /\ ctrl.idx > Len(sessions)
    /\ sessions' = <<>>
    /\ ctrl' = [pc |-> "done", msg |-> 0, idx |-> 0]
    /\ UNCHANGED <<published, userPc, shutPc, msgChan, listener, acceptPc, unregCalls>>
    /\ UNCHANGED <<nodeVars, sessVars>>

\* pub.listener.Accept() returns a connection: a session is made for it,
\* pushed on pub.sessions by the accept loop, and started
AcceptConn(c) ==
    /\ acceptPc = "accept"
    /\ listener = "open"
    /\ sessPc[c] = "none"
    /\ \A d \in Conns : d < c => sessPc[d] # "none"
    /\ sessPc' = [sessPc EXCEPT ![c] = "readHeader"]
    /\ connState' = [connState EXCEPT ![c] = "open"]
    /\ sessions' = Append(sessions, c)
    /\ UNCHANGED <<published, userPc, shutPc, msgChan, ctrl, listener, acceptPc,
                   unregCalls>>
    /\ UNCHANGED <<headerMap, sessErr, sessMsgChan, queue, connLog, timeVars>>
    /\ UNCHANGED nodeVars

\* pub.listener.Accept() returns an error (always so once the listener is
\* closed): the accept loop goes to send it on pub.listenerErrorChan
AcceptError ==
    /\ acceptPc = "accept"
    /\ acceptPc' = "sendErr"
    /\ UNCHANGED <<published, userPc, shutPc, msgChan, ctrl, listener, sessions,
                   unregCalls>>
    /\ UNCHANGED <<nodeVars, sessVars>>

(***************************************************************************)
(* A session (remoteSubscriberSession.start).                             *)
(***************************************************************************)
\* the headers a peer can send
PeerHeaders == [type : TypeNames, md5sum : MD5Sums]

\* the handshake test with && for ||: one matching field is enough
HeaderMatchesEither(h) == ~(h.type # pubTypeName /\ h.md5sum # pubMD5Sum)

\* headerMap["type"] != session.typeName || headerMap["md5sum"] != session.md5sum
\* is false
HeaderMatches(h) == ~(h.type # pubTypeName \/ h.md5sum # pubMD5Sum)

\* the deferred recover of start(): session.errorChan <- e.  errorChan is
\* pub.sessionErrorChan, a nil channel, so the send never completes: the
\* session stays here, its connection open.
Panic(s, why) ==
    /\ sessPc' = [sessPc EXCEPT ![s] = "reporting"]
    /\ sessErr' = [sessErr EXCEPT ![s] = why]

\* 1. readConnectionHeader, and the type check
SessReadHeader(s) ==
    /\ sessPc[s] = "readHeader"
    /\ \/ /\ Panic(s, "read")
          /\ UNCHANGED headerMap
       \/ \E h \in PeerHeaders :
             /\ headerMap' = [headerMap EXCEPT ![s] = h]
             /\ IF HeaderMatches(h)
                THEN /\ sessPc' = [sessPc EXCEPT ![s] = "writeHeader"]
                     /\ UNCHANGED sessErr
                ELSE Panic(s, "mismatch")
    /\ UNCHANGED <<sessMsgChan, queue, connState, connLog, timeVars>>
    /\ UNCHANGED <<nodeVars, pubVars>>

\* 2. writeConnectionHeader(resHeaders, session.conn)
SessWriteHeader(s) ==
    /\ sessPc[s] = "writeHeader"
    /\ \/ /\ connLog' = [connLog EXCEPT ![s] = Append(@,
                 [kind |-> "header", md5sum |-> pubMD5Sum, type |-> pubTypeName])]
          /\ sessPc' = [sessPc EXCEPT ![s] = "streaming"]
          /\ UNCHANGED sessErr
       \/ /\ Panic(s, "writeHeader")
          /\ UNCHANGED connLog
    /\ UNCHANGED <<headerMap, sessMsgChan, queue, connState, timeVars>>
    /\ UNCHANGED <<nodeVars, pubVars>>

\* the enqueue that never evicts
EnqueueNoDrop(q, msg) == Append(q, msg)

\* the enqueue that discards the new payload when the queue is full
EnqueueDropNewest(q, msg) == IF Len(q) = queueMaxSize THEN q ELSE Append(q, msg)

\* if queue.Len() == queueMaxSize { queue.Remove(queue.Front()) }
\* queue.PushBack(msg)
Enqueue(q, msg) ==
    IF Len(q) = queueMaxSize THEN Append(Tail(q), msg) ELSE Append(q, msg)

\* 3. case msg := <-session.msgChan; the loop then enters the select
\* again, which arms a new time.After
SessRecvMsg(s) ==
    /\ sessPc[s] = "streaming"
    /\ sessMsgChan[s] # <<>>
    /\ queue' = [queue EXCEPT ![s] = Enqueue(@, Head(sessMsgChan[s]))]
    /\ sessMsgChan' = [sessMsgChan EXCEPT ![s] = Tail(@)]
    /\ timer' = [timer EXCEPT ![s] = 0]
    /\ UNCHANGED <<sessPc, headerMap, sessErr, connState, connLog, sinceTick>>
    /\ UNCHANGED <<nodeVars, pubVars>>

\* the flush that takes the newest entry
TakeBack(q) == [msg |-> Last(q), rest |-> Front(q)]

\* the flush that leaves the entry in the queue
TakeFrontKeep(q) == [msg |-> Head(q), rest |-> q]

\* msg := queue.Front().Value; queue.Remove(queue.Front())
TakeFront(q) == [msg |-> Head(q), rest |-> Tail(q)]

WriteResults == {"ok", "timeout", "error"}

\* what one Write call leaves on the socket: all of it when it succeeds,
\* nothing or a part of it when the deadline expires; what a broken
\* connection still took is not recorded
Written(kind, msg, result, part) ==
    IF result = "ok" THEN <<[kind |-> kind, msg |-> msg, full |-> TRUE]>>
    ELSE IF result = "timeout" /\ part
         THEN <<[kind |-> kind, msg |-> msg, full |-> FALSE]>>
         ELSE <<>>

\* case <-time.After(10 ms) with a non-empty queue: take the front entry,
\* write its length, then its bytes, each under a 10 ms deadline.  A timeout
\* of either write continues the loop; any other error panics.  A tick
\* with an empty queue changes nothing and is left out.
SessTick(s) ==
    /\ sessPc[s] = "streaming"
    /\ queue[s] # <<>>
    /\ LET t == TakeFront(queue[s]) IN
       /\ queue' = [queue EXCEPT ![s] = t.rest]
       /\ \E r1 \in WriteResults, p1 \in BOOLEAN :
             \/ /\ r1 # "ok"
                /\ r1 = "error" => ~p1
                /\ connLog' = [connLog EXCEPT
                       ![s] = @ \o Written("len", t.msg, r1, p1)]
                /\ IF r1 = "timeout"
                   THEN UNCHANGED <<sessPc, sessErr>>
                   ELSE Panic(s, "io")
             \/ /\ r1 = "ok"
                /\ p1
                /\ \E r2 \in WriteResults, p2 \in BOOLEAN :
                      /\ r2 = "ok" => p2
                      /\ r2 = "error" => ~p2
                      /\ connLog' = [connLog EXCEPT
                             ![s] = @ \o Written("len", t.msg, r1, p1)
                                      \o Written("body", t.msg, r2, p2)]
                      /\ IF r2 = "error"
                         THEN Panic(s, "io")
                         ELSE UNCHANGED <<sessPc, sessErr>>
    /\ timer' = [timer EXCEPT ![s] = 0]
    /\ sinceTick' = [sinceTick EXCEPT ![s] = 0]
    /\ UNCHANGED <<headerMap, sessMsgChan, connState>>
    /\ UNCHANGED <<nodeVars, pubVars>>

\* the tick of SessTick when the time.After armed at the entry of the
\* select has run out
SessTimedTick(s) ==
    /\ timer[s] = FlushInterval
    /\ SessTick(s)

\* case <-time.After(10 ms) with an empty queue: nothing is written and the
\* loop enters the select again
SessIdleTick(s) ==
    /\ sessPc[s] = "streaming"
    /\ queue[s] = <<>>
    /\ timer[s] = FlushInterval
    /\ timer' = [timer EXCEPT ![s] = 0]
    /\ sinceTick' = [sinceTick EXCEPT ![s] = 0]
    /\ UNCHANGED <<sessPc, headerMap, sessErr, sessMsgChan, queue, connState,
                   connLog>>
    /\ UNCHANGED <<nodeVars, pubVars>>

\* a millisecond passes while every streaming session waits in its select:
\* none has a payload to take and no time.After has run out
Elapse ==
    /\ \E s \in Conns : sessPc[s] = "streaming"
    /\ \A s \in Conns : sessPc[s] = "streaming" =>
           sessMsgChan[s] = <<>> /\ timer[s] < FlushInterval
    /\ timer' = [s \in Conns |->
           IF sessPc[s] = "streaming" THEN timer[s] + 1 ELSE timer[s]]
    /\ sinceTick' = [s \in Conns |->
           IF sessPc[s] = "streaming" THEN sinceTick[s] + 1 ELSE sinceTick[s]]
    /\ UNCHANGED <<sessPc, headerMap, sessErr, sessMsgChan, queue, connState,
                   connLog>>
    /\ UNCHANGED <<nodeVars, pubVars>>

(***************************************************************************)
(* The node's liveness flag, its background tasks and Node.Shutdown.       *)
(***************************************************************************)
\* the publisher followed in detail was started by this node
PublisherStarted == \E n \in Names : publishers[n] # NoObj

\* node.waitGroup: the tasks that have entered it and have not left it, the
\* control task of the publisher and the task of every subscriber
WaitGroupCount ==
    (IF PublisherStarted /\ ctrl.pc # "done" THEN 1 ELSE 0)
    + Cardinality({n \in Names : subTask[n] \in {"running", "stopping"}})

\* an interrupt signal is sent while the signal handler task waits in
\* <-node.interruptChan: the task takes it, then node.ok = false
Interrupt ==
    /\ handlerPc = "waiting"
    /\ handlerPc' = "done"
    /\ signals' = signals + 1
    /\ ok' = FALSE
    /\ okWriters' = okWriters \cup {"interrupt"}
    /\ UNCHANGED <<nodePc, phases, jobChan, servers, rpcListener, rpcServer,
                   rpcCalls, rpcResult>>
    /\ UNCHANGED <<remapTable, publishers, subscribers, masterCalls, nextObj,
                   pubReturns, subReturns, exited, subTask, pubListChan>>
    /\ UNCHANGED <<pubVars, sessVars, spinPc>>

\* defaultNode.NewServiceServer(service, ...): a server already there under
\* the name is shut down and replaced
NewServiceServer(service) ==
    /\ ~exited
    /\ nodePc = "idle"
    /\ servers' = [servers EXCEPT ![remap(service)] = "up"]
    /\ UNCHANGED <<ok, okWriters, handlerPc, nodePc, phases, jobChan,
                   rpcListener, rpcServer, rpcCalls, rpcResult>>
    /\ UNCHANGED <<remapTable, publishers, subscribers, masterCalls, nextObj,
                   pubReturns, subReturns, exited, subTask, pubListChan>>
    /\ UNCHANGED <<pubVars, sessVars, spinVars>>

\* the task of a subscriber takes the next publisher list off sub.pubListChan
SubRecvPubList(n) ==
    /\ subTask[n] = "running"
    /\ pubListChan[n] # <<>>
    /\ pubListChan' = [pubListChan EXCEPT ![n] = Tail(@)]
    /\ UNCHANGED <<remapTable, publishers, subscribers, masterCalls, nextObj,
                   pubReturns, subReturns, exited, subTask, coordVars>>
    /\ UNCHANGED <<pubVars, sessVars, spinVars>>

\* the task of a subscriber puts a job on node.jobChan, the channel it was
\* started with; the send completes when the buffer has room
EnqueueJob(n) ==
    /\ subTask[n] = "running"
    /\ jobChan < Min(jobChanCap, MaxJobs)
    /\ jobChan' = jobChan + 1
    /\ UNCHANGED <<ok, okWriters, handlerPc, nodePc, phases, servers,
                   rpcListener, rpcServer, rpcCalls, rpcResult>>
    /\ UNCHANGED <<remapTable, publishers, subscribers, masterCalls, nextObj,
                   pubReturns, subReturns, exited, subTask, pubListChan>>
    /\ UNCHANGED <<pubVars, sessVars, spinVars>>

\* the task of a subscriber ends after its shutdown signal: it calls the
\* callback it was started with, which deletes node.subscribers[name], and
\* leaves the wait group
SubExit(n) ==
    /\ subTask[n] = "stopping"
    /\ subTask' = [subTask EXCEPT ![n] = "exited"]
    /\ subscribers' = [subscribers EXCEPT ![n] = NoSubscriber]
    /\ UNCHANGED <<remapTable, publishers, masterCalls, nextObj, pubReturns,
                   subReturns, exited, pubListChan, coordVars>>
    /\ UNCHANGED <<pubVars, sessVars, spinVars>>

\* the task http.Serve(node.xmlrpcListener, ...) ends once its listener is
\* closed
RpcServerStop ==
    /\ rpcListener = "closed"
    /\ rpcServer = "serving"
    /\ rpcServer' = "stopped"
    /\ UNCHANGED <<ok, okWriters, handlerPc, nodePc, phases, jobChan, servers,
                   rpcListener, rpcCalls, rpcResult>>
    /\ UNCHANGED <<remapTable, publishers, subscribers, masterCalls, nextObj,
                   pubReturns, subReturns, exited, subTask, pubListChan>>
    /\ UNCHANGED <<pubVars, sessVars, spinVars>>

\* the signal handler task started in newDefaultNode reaches its receive
HandlerStart ==
    /\ handlerPc = "starting"
    /\ handlerPc' = "waiting"
    /\ UNCHANGED <<ok, okWriters, nodePc, phases, jobChan, servers, rpcListener,
                   rpcServer, rpcCalls, rpcResult, spinVars>>
    /\ UNCHANGED <<remapTable, publishers, subscribers, masterCalls, nextObj,
                   pubReturns, subReturns, exited, subTask, pubListChan>>
    /\ UNCHANGED <<pubVars, sessVars>>

\* an interrupt signal is sent while no task waits in <-node.interruptChan.
\* The channel given to signal.Notify has no buffer and the signal package
\* does not wait for a receiver: the signal is dropped.
InterruptDropped ==
    /\ handlerPc # "waiting"
    /\ signals < MaxSignals
    /\ signals' = signals + 1
    /\ UNCHANGED <<coordVars, spinPc>>
    /\ UNCHANGED <<remapTable, publishers, subscribers, masterCalls, nextObj,
                   pubReturns, subReturns, exited, subTask, pubListChan>>
    /\ UNCHANGED <<pubVars, sessVars>>

\* the caller of Spin goes from from to to
SpinGoes(from, to) ==
    /\ spinPc = from
    /\ spinPc' = to
    /\ UNCHANGED <<ok, okWriters, handlerPc, nodePc, phases, servers,
                   rpcListener, rpcServer, rpcCalls, rpcResult, signals>>
    /\ UNCHANGED <<remapTable, publishers, subscribers, masterCalls, nextObj,
                   pubReturns, subReturns, exited, subTask, pubListChan>>
    /\ UNCHANGED <<pubVars, sessVars>>

\* Spin() is entered
SpinCall ==
    /\ SpinGoes("idle", "test")
    /\ UNCHANGED jobChan

\* for node.OK() { ... }: the flag is read before every iteration
SpinTest ==
    /\ SpinGoes("test", IF ok THEN "select" ELSE "returned")
    /\ UNCHANGED jobChan

\* case job := <-node.jobChan: the job is taken and run
SpinJob ==
    /\ jobChan > 0
    /\ jobChan' = jobChan - 1
    /\ SpinGoes("select", "job")

\* job() returns
SpinJobDone ==
    /\ SpinGoes("job", "test")
    /\ UNCHANGED jobChan

\* case <-timeoutChan: no job came within the second
SpinTimeout ==
    /\ jobChan = 0
    /\ SpinGoes("select", "test")
    /\ UNCHANGED jobChan

\* the phases of Node.Shutdown in the order of its code
PhaseOrder == <<"flag", "subscribers", "publishers", "servers", "wait",
                "closeListener", "waitServer">>

\* the caller of Node.Shutdown finishes a phase and goes on to the next
NodeGoes(phase, to) ==
    /\ nodePc' = to
    /\ phases' = Append(phases, phase)

\* Node.Shutdown is entered: node.ok = false under the lock
NodeShutdownFlag ==
    /\ nodePc = "idle"
    /\ ok' = FALSE
    /\ okWriters' = okWriters \cup {"Shutdown"}
    /\ NodeGoes("flag", "subscribers")
    /\ UNCHANGED <<handlerPc, jobChan, servers, rpcListener, rpcServer, rpcCalls,
                   rpcResult>>
    /\ UNCHANGED <<remapTable, publishers, subscribers, masterCalls, nextObj,
                   pubReturns, subReturns, exited, subTask, pubListChan>>
    /\ UNCHANGED <<pubVars, sessVars, spinVars>>

\* for _, s := range node.subscribers { s.Shutdown() }: one subscriber's
\* task takes the shutdown signal
NodeShutdownSubscriber(n) ==
    /\ nodePc = "subscribers"
    /\ subscribers[n].id # NoObj
    /\ subTask[n] = "running"
    /\ subTask' = [subTask EXCEPT ![n] = "stopping"]
    /\ UNCHANGED <<remapTable, publishers, subscribers, masterCalls, nextObj,
                   pubReturns, subReturns, exited, pubListChan, coordVars>>
    /\ UNCHANGED <<pubVars, sessVars, spinVars>>

\* the loop over node.subscribers is through
NodeSubscribersDone ==
    /\ nodePc = "subscribers"
    /\ \A n \in Names : subscribers[n].id # NoObj => subTask[n] # "running"
    /\ NodeGoes("subscribers", "publishers")
    /\ UNCHANGED <<ok, okWriters, handlerPc, jobChan, servers, rpcListener,
                   rpcServer, rpcCalls, rpcResult>>
    /\ UNCHANGED <<remapTable, publishers, subscribers, masterCalls, nextObj,
                   pubReturns, subReturns, exited, subTask, pubListChan>>
    /\ UNCHANGED <<pubVars, sessVars, spinVars>>

\* for _, p := range node.publishers { p.Shutdown() }: the call is entered
NodeShutdownPublisher ==
    /\ nodePc = "publishers"
    /\ PublisherStarted
    /\ ShutdownCall

\* the loop over node.publishers is through: p.Shutdown() has returned
NodePublishersDone ==
    /\ nodePc = "publishers"
    /\ PublisherStarted => shutPc = "done"
    /\ NodeGoes("publishers", "servers")
    /\ UNCHANGED <<ok, okWriters, handlerPc, jobChan, servers, rpcListener,
                   rpcServer, rpcCalls, rpcResult>>
    /\ UNCHANGED <<remapTable, publishers, subscribers, masterCalls, nextObj,
                   pubReturns, subReturns, exited, subTask, pubListChan>>
    /\ UNCHANGED <<pubVars, sessVars, spinVars>>

\* for _, s := range node.servers { s.Shutdown() }: one server is shut down
NodeShutdownServer(n) ==
    /\ nodePc = "servers"
    /\ servers[n] = "up"
    /\ servers' = [servers EXCEPT ![n] = "down"]
    /\ UNCHANGED <<ok, okWriters, handlerPc, nodePc, phases, jobChan,
                   rpcListener, rpcServer, rpcCalls, rpcResult>>
    /\ UNCHANGED <<remapTable, publishers, subscribers, masterCalls, nextObj,
                   pubReturns, subReturns, exited, subTask, pubListChan>>
    /\ UNCHANGED <<pubVars, sessVars, spinVars>>

\* the loop over node.servers is through
NodeServersDone ==
    /\ nodePc = "servers"
    /\ \A n \in Names : servers[n] # "up"
    /\ NodeGoes("servers", "wait")
    /\ UNCHANGED <<ok, okWriters, handlerPc, jobChan, servers, rpcListener,
                   rpcServer, rpcCalls, rpcResult>>
    /\ UNCHANGED <<remapTable, publishers, subscribers, masterCalls, nextObj,
                   pubReturns, subReturns, exited, subTask, pubListChan>>
    /\ UNCHANGED <<pubVars, sessVars, spinVars>>

\* node.waitGroup.Wait() returns without waiting
NodeWaitSkipped ==
    /\ nodePc = "wait"
    /\ NodeGoes("wait", "closeListener")
    /\ UNCHANGED <<ok, okWriters, handlerPc, jobChan, servers, rpcListener,
                   rpcServer, rpcCalls, rpcResult>>
    /\ UNCHANGED <<remapTable, publishers, subscribers, masterCalls, nextObj,
                   pubReturns, subReturns, exited, subTask, pubListChan>>
    /\ UNCHANGED <<pubVars, sessVars, spinVars>>

\* node.waitGroup.Wait() returns: the count is zero
NodeWait ==
    /\ nodePc = "wait"
    /\ WaitGroupCount = 0
    /\ NodeGoes("wait", "closeListener")
    /\ UNCHANGED <<ok, okWriters, handlerPc, jobChan, servers, rpcListener,
                   rpcServer, rpcCalls, rpcResult>>
    /\ UNCHANGED <<remapTable, publishers, subscribers, masterCalls, nextObj,
                   pubReturns, subReturns, exited, subTask, pubListChan>>
    /\ UNCHANGED <<pubVars, sessVars, spinVars>>

\* node.xmlrpcListener.Close()
NodeCloseListener ==
    /\ nodePc = "closeListener"
    /\ rpcListener' = "closed"
    /\ NodeGoes("closeListener", "waitServer")
    /\ UNCHANGED <<ok, okWriters, handlerPc, jobChan, servers, rpcServer,
                   rpcCalls, rpcResult>>
    /\ UNCHANGED <<remapTable, publishers, subscribers, masterCalls, nextObj,
                   pubReturns, subReturns, exited, subTask, pubListChan>>
    /\ UNCHANGED <<pubVars, sessVars, spinVars>>

\* node.xmlrpcHandler.WaitForShutdown() returns, and Node.Shutdown with it
NodeWaitServer ==
    /\ nodePc = "waitServer"
    /\ rpcServer = "stopped"
    /\ NodeGoes("waitServer", "returned")
    /\ UNCHANGED <<ok, okWriters, handlerPc, jobChan, servers, rpcListener,
                   rpcServer, rpcCalls, rpcResult>>
    /\ UNCHANGED <<remapTable, publishers, subscribers, masterCalls, nextObj,
                   pubReturns, subReturns, exited, subTask, pubListChan>>
    /\ UNCHANGED <<pubVars, sessVars, spinVars>>

(***************************************************************************)
(* The slave API, the calls other nodes and the master make on the node.   *)
(***************************************************************************)
\* buildRosAPIResult(code, message, value) for a call
Answer(method, topic, arg, code, message, value) ==
    [method |-> method, topic |-> topic, arg |-> arg, code |-> code,
     message |-> message, value |-> value]

\* a call is answered while the peer-facing listener takes connections
Answered(result) ==
    /\ rpcListener = "open"
    /\ rpcCalls < MaxRpc
    /\ rpcCalls' = rpcCalls + 1
    /\ rpcResult' = result

\* shutdown that flips the flag instead of clearing it
shutdownFlips ==
    /\ Answered(Answer("shutdown", "", <<>>, APIStatusSuccess, "Success", <<>>))
    /\ ok' = ~ok
    /\ okWriters' = okWriters \cup {"shutdown"}
    /\ UNCHANGED <<handlerPc, nodePc, phases, jobChan, servers, rpcListener,
                   rpcServer>>
    /\ UNCHANGED <<remapTable, publishers, subscribers, masterCalls, nextObj,
                   pubReturns, subReturns, exited, subTask, pubListChan>>
    /\ UNCHANGED <<pubVars, sessVars, spinVars>>

\* defaultNode.shutdown(callerID, msg)
shutdown ==
    /\ Answered(Answer("shutdown", "", <<>>, APIStatusSuccess, "Success", <<>>))
    /\ ok' = FALSE
    /\ okWriters' = okWriters \cup {"shutdown"}
    /\ UNCHANGED <<handlerPc, nodePc, phases, jobChan, servers, rpcListener,
                   rpcServer>>
    /\ UNCHANGED <<remapTable, publishers, subscribers, masterCalls, nextObj,
                   pubReturns, subReturns, exited, subTask, pubListChan>>
    /\ UNCHANGED <<pubVars, sessVars, spinVars>>

\* publisherUpdate that sends the list on the channel of every name
publisherUpdateAll(topic, uris) ==
    /\ IF subscribers[topic].id = NoObj
       THEN /\ Answered(Answer("publisherUpdate", topic, uris, APIStatusFailure,
                               "No such topic", <<>>))
            /\ UNCHANGED pubListChan
       ELSE /\ pubListChan' = [n \in Names |-> Append(pubListChan[n], uris)]
            /\ Answered(Answer("publisherUpdate", topic, uris, APIStatusSuccess,
                               "Success", <<>>))
    /\ UNCHANGED <<ok, okWriters, handlerPc, nodePc, phases, jobChan, servers,
                   rpcListener, rpcServer>>
    /\ UNCHANGED <<remapTable, publishers, subscribers, masterCalls, nextObj,
                   pubReturns, subReturns, exited, subTask>>
    /\ UNCHANGED <<pubVars, sessVars, spinVars>>

\* defaultNode.publisherUpdate(callerID, topic, publishers)
publisherUpdate(topic, uris) ==
    /\ IF subscribers[topic].id = NoObj
       THEN /\ Answered(Answer("publisherUpdate", topic, uris, APIStatusFailure,
                               "No such topic", <<>>))
            /\ UNCHANGED pubListChan
       ELSE /\ pubListChan' = [pubListChan EXCEPT ![topic] = Append(@, uris)]
            /\ Answered(Answer("publisherUpdate", topic, uris, APIStatusSuccess,
                               "Success", <<>>))
    /\ UNCHANGED <<ok, okWriters, handlerPc, nodePc, phases, jobChan, servers,
                   rpcListener, rpcServer>>
    /\ UNCHANGED <<remapTable, publishers, subscribers, masterCalls, nextObj,
                   pubReturns, subReturns, exited, subTask>>
    /\ UNCHANGED <<pubVars, sessVars, spinVars>>

\* defaultPublisher.hostAndPort(): the address the listener is bound to; the
\* port of a publisher is told apart by the publisher's identity
hostAndPort(pub) == <<"host", pub>>

\* the loop of requestTopic over the offered protocols from position i on:
\* the first TCPROS entry selects the endpoint and ends the loop
RECURSIVE SelectProtocol(_, _, _)
SelectProtocol(protocols, i, pub) ==
    IF i > Len(protocols) THEN <<>>
    ELSE IF protocols[i] = "TCPROS"
         THEN <<"TCPROS">> \o hostAndPort(pub)
         ELSE SelectProtocol(protocols, i + 1, pub)

\* defaultNode.requestTopic(callerID, topic, protocols)
requestTopic(topic, protocols) ==
    /\ IF publishers[topic] = NoObj
       THEN Answered(Answer("requestTopic", topic, protocols, APIStatusFailure,
                            "No such topic", <<>>))
       ELSE Answered(Answer("requestTopic", topic, protocols, APIStatusSuccess,
                            "Success",
                            SelectProtocol(protocols, 1, publishers[topic])))
    /\ UNCHANGED <<ok, okWriters, handlerPc, nodePc, phases, jobChan, servers,
                   rpcListener, rpcServer>>
    /\ UNCHANGED <<remapTable, publishers, subscribers, masterCalls, nextObj,
                   pubReturns, subReturns, exited, subTask, pubListChan>>
    /\ UNCHANGED <<pubVars, sessVars, spinVars>>

(***************************************************************************)
(* Specifications.                                                         *)
(***************************************************************************)
CallPublish == PublishCall(MaxPublish)

CallPublishBurst == PublishCall(BurstLen)

Init == NodeIdle /\ PubInit /\ SessInit

Next ==
    \/ CallPublish
    \/ Publish
    \/ ShutdownCall
    \/ CtrlRecvMsg
    \/ CtrlSend
    \/ CtrlFanoutDone
    \/ CtrlListenerError
    \/ CtrlShutdown
    \/ CtrlQuitSession
    \/ CtrlQuitDone
    \/ \E c \in Conns : AcceptConn(c)
    \/ AcceptError
    \/ \E s \in Conns : SessReadHeader(s)
    \/ \E s \in Conns : SessWriteHeader(s)
    \/ \E s \in Conns : SessRecvMsg(s)
    \/ \E s \in Conns : SessTick(s)

Spec == Init /\ [][Next]_vars

\* the publisher right after its first connection was accepted
BurstInit ==
    /\ NodeIdle
    /\ published = <<>>
    /\ userPc = "idle"
    /\ shutPc = "idle"
    /\ msgChan = <<>>
    /\ ctrl = [pc |-> "select", msg |-> 0, idx |-> 0]
    /\ listener = "open"
    /\ acceptPc = "accept"
    /\ sessions = <<1>>
    /\ unregCalls = 0
    /\ sessPc = [c \in Conns |-> IF c = 1 THEN "readHeader" ELSE "none"]
    /\ headerMap = [c \in Conns |-> NoHeader]
    /\ sessErr = [c \in Conns |-> "none"]
    /\ sessMsgChan = [c \in Conns |-> <<>>]
    /\ queue = [c \in Conns |-> <<>>]
    /\ connState = [c \in Conns |-> IF c = 1 THEN "open" ELSE "none"]
    /\ connLog = [c \in Conns |-> <<>>]
    /\ timer = [c \in Conns |-> 0]
    /\ sinceTick = [c \in Conns |-> 0]

\* a burst of Publish calls that arrive faster than the flush interval: the
\* timer of the streaming select is armed anew in every iteration and does
\* not fire while payloads keep arriving, so no flush tick is taken
BurstNext ==
    \/ CallPublishBurst
    \/ Publish
    \/ ShutdownCall
    \/ CtrlRecvMsg
    \/ CtrlSend
    \/ CtrlFanoutDone
    \/ CtrlListenerError
    \/ CtrlShutdown
    \/ CtrlQuitSession
    \/ CtrlQuitDone
    \/ AcceptError
    \/ \E s \in Conns : SessReadHeader(s)
    \/ \E s \in Conns : SessWriteHeader(s)
    \/ \E s \in Conns : SessRecvMsg(s)

SpecBurst == BurstInit /\ [][BurstNext]_vars

NodeNext ==
    \/ CallNewPublisher
    \/ CallNewPublisherWithCallbacks
    \/ CallNewSubscriber

\* a fresh node under any remapping table; its publishers are not followed
InitNode == NodeInit /\ PubInit /\ SessInit

SpecNode == InitNode /\ [][NodeNext]_vars

\* the node after NewPublisher("a", ...) and NewSubscriber("b", ..., "f"):
\* both are registered, their tasks run, no connection was accepted yet;
\* handler: where the signal handler task stands
StartedWith(handler) ==
    /\ remapTable = [n \in Names |-> n]
    /\ publishers = [n \in Names |-> IF n = "a" THEN 1 ELSE NoObj]
    /\ subscribers = [n \in Names |->
           IF n = "b" THEN newDefaultSubscriber(2, "f") ELSE NoSubscriber]
    /\ masterCalls = <<[method |-> "registerPublisher", name |-> "a"],
                       [method |-> "registerSubscriber", name |-> "b"]>>
    /\ nextObj = 3
    /\ pubReturns = <<[topic |-> "a", name |-> "a", pub |-> 1]>>
    /\ subReturns = <<[topic |-> "b", name |-> "b", sub |-> 2,
                       callback |-> "f"]>>
    /\ exited = FALSE
    /\ subTask = [n \in Names |-> IF n = "b" THEN "running" ELSE "none"]
    /\ \E list \in MasterLists :
          pubListChan = [n \in Names |-> IF n = "b" THEN <<list>> ELSE <<>>]
    /\ ok = TRUE
    /\ okWriters = {}
    /\ handlerPc = handler
    /\ nodePc = "idle"
    /\ phases = <<>>
    /\ jobChan = 0
    /\ servers = [n \in Names |-> "none"]
    /\ rpcListener = "open"
    /\ rpcServer = "serving"
    /\ rpcCalls = 0
    /\ rpcResult = NoResult
    /\ signals = 0
    /\ spinPc = "idle"
    /\ PubInit
    /\ SessInit

\* the started node with its signal handler task waiting for a signal
StartedInit == StartedWith("waiting")

\* a started node is interrupted, told to shut down by a peer and shut down
\* by its user while connections to its publisher come and go; nothing is
\* published
DownNext ==
    \/ Interrupt
    \/ shutdown
    \/ \E service \in Names : NewServiceServer(service)
    \/ \E n \in Names : SubRecvPubList(n)
    \/ \E n \in Names : SubExit(n)
    \/ RpcServerStop
    \/ NodeShutdownFlag
    \/ \E n \in Names : NodeShutdownSubscriber(n)
    \/ NodeSubscribersDone
    \/ NodeShutdownPublisher
    \/ NodePublishersDone
    \/ \E n \in Names : NodeShutdownServer(n)
    \/ NodeServersDone
    \/ NodeWait
    \/ NodeCloseListener
    \/ NodeWaitServer
    \/ CtrlListenerError
    \/ CtrlShutdown
    \/ CtrlQuitSession
    \/ CtrlQuitDone
    \/ \E c \in Conns : AcceptConn(c)
    \/ AcceptError
    \/ \E s \in Conns : SessReadHeader(s)
    \/ \E s \in Conns : SessWriteHeader(s)

SpecDown == StartedInit /\ [][DownNext]_vars

\* a node without publishers and servers whose user creates subscribers and
\* calls Node.Shutdown; the tasks of the subscribers queue jobs
JobsNext ==
    \/ CallNewSubscriber
    \/ \E n \in Names : SubRecvPubList(n)
    \/ \E n \in Names : EnqueueJob(n)
    \/ \E n \in Names : SubExit(n)
    \/ RpcServerStop
    \/ NodeShutdownFlag
    \/ \E n \in Names : NodeShutdownSubscriber(n)
    \/ NodeSubscribersDone
    \/ NodePublishersDone
    \/ NodeServersDone
    \/ NodeWait
    \/ NodeCloseListener
    \/ NodeWaitServer

SpecJobs == Init /\ [][JobsNext]_vars

\* the slave API of a started node is called
SlaveNext ==
    \/ shutdown
    \/ \E topic \in Names, uris \in UriLists : publisherUpdate(topic, uris)
    \/ \E topic \in Names, protocols \in ProtocolLists :
          requestTopic(topic, protocols)
    \/ \E n \in Names : SubRecvPubList(n)

SpecSlave == StartedInit /\ [][SlaveNext]_vars

\* payloads are published to sessions whose flush timers run in real time
FlushNext ==
    \/ CallPublish
    \/ Publish
    \/ CtrlRecvMsg
    \/ CtrlSend
    \/ CtrlFanoutDone
    \/ \E c \in Conns : AcceptConn(c)
    \/ \E s \in Conns : SessReadHeader(s)
    \/ \E s \in Conns : SessWriteHeader(s)
    \/ \E s \in Conns : SessRecvMsg(s)
    \/ \E s \in Conns : SessTimedTick(s)
    \/ \E s \in Conns : SessIdleTick(s)
    \/ Elapse

SpecFlush == Init /\ [][FlushNext]_vars

\* the started node right after its construction, the signal handler task
\* not yet at its receive
SpinInit == StartedWith("starting")

\* the user runs Spin while interrupt signals and shutdown calls come in and
\* the task of the subscriber queues jobs
SpinNext ==
    \/ HandlerStart
    \/ Interrupt
    \/ InterruptDropped
    \/ shutdown
    \/ SpinCall
    \/ SpinTest
    \/ SpinJob
    \/ SpinJobDone
    \/ SpinTimeout
    \/ \E n \in Names : EnqueueJob(n)
    \/ \E n \in Names : SubRecvPubList(n)

SpecSpin == SpinInit /\ [][SpinNext]_vars

(***************************************************************************)
(* Claims about the node registries (SpecNode).                           *)
(***************************************************************************)
\* C1: any two publisher-creation calls (NewPublisher or
\* NewPublisherWithCallbacks) whose topics resolve to the same name return
\* the same Publisher, and registerPublisher is called exactly once for
\* that name.
C1_PublisherIdempotent ==
    \A i, j \in DOMAIN pubReturns :
        pubReturns[i].name = pubReturns[j].name =>
            /\ pubReturns[i].pub = pubReturns[j].pub
            /\ CountCalls("registerPublisher", pubReturns[i].name) = 1

\* C2: after any sequence of NewSubscriber calls there is at most one
\* Subscriber per resolved name: the first call for a name registers once
\* and creates it, each later call registers nothing, returns the same
\* Subscriber and appends exactly its callback, in call order.
C2_OneSubscriberPerName ==
    \A n \in Names :
        LET calls == SelectNames(subReturns, n) IN
        /\ CountCalls("registerSubscriber", n) <= 1
        /\ calls = <<>> =>
              /\ subscribers[n] = NoSubscriber
              /\ CountCalls("registerSubscriber", n) = 1 => exited
        /\ calls # <<>> =>
              /\ CountCalls("registerSubscriber", n) = 1
              /\ subscribers[n].id = calls[1].sub
              /\ \A i \in DOMAIN calls : calls[i].sub = calls[1].sub
              /\ subscribers[n].callbacks =
                     [i \in 1..Len(calls) |-> calls[i].callback]

\* two NewSubscriber calls with different topics and callbacks that resolve
\* to the same name, the second one answered from the registry
C2_Witness ==
    \E i, j \in DOMAIN subReturns :
        /\ i < j
        /\ subReturns[i].name = subReturns[j].name
        /\ subReturns[i].topic # subReturns[j].topic
        /\ subReturns[i].callback # subReturns[j].callback
        /\ Len(subscribers[subReturns[i].name].callbacks) >= 2

(***************************************************************************)
(* Claims about the publisher and its sessions.                           *)
(***************************************************************************)

\* the last n entries of a sequence
MostRecent(seq, n) == SubSeq(seq, Len(seq) - n + 1, Len(seq))

RECURSIVE IsSubseq(_, _)
\* a is b with some entries left out
IsSubseq(a, b) ==
    IF a = <<>> THEN TRUE
    ELSE IF b = <<>> THEN FALSE
    ELSE IF Head(a) = Head(b) THEN IsSubseq(Tail(a), Tail(b))
    ELSE IsSubseq(a, Tail(b))

RECURSIVE PayloadsWritten(_)
\* the payloads whose bytes, all or part of them, were written to a socket
PayloadsWritten(log) ==
    IF log = <<>> THEN <<>>
    ELSE IF Head(log).kind = "body"
         THEN <<Head(log).msg>> \o PayloadsWritten(Tail(log))
         ELSE PayloadsWritten(Tail(log))

\* the peer of session s sent a header whose type or md5sum is not the
\* Publisher's
Mismatched(s) ==
    /\ headerMap[s] # NoHeader
    /\ headerMap[s].type # pubTypeName \/ headerMap[s].md5sum # pubMD5Sum

\* every payload published so far has reached the end of the pipeline
Drained(s) ==
    /\ userPc = "idle"
    /\ msgChan = <<>>
    /\ ctrl.pc = "select"
    /\ sessMsgChan[s] = <<>>

\* C3: Publish returns immediately: whenever a Publish call is at its send,
\* the send can complete at once, without waiting for the control task to
\* take a payload out of the Publisher's input.
C3_PublishNeverWaits ==
    userPc = "sending" => Len(msgChan) < PubChanCap

\* C4: the fan-out never blocks: whenever the control task is about to hand
\* a payload to a live Session, the hand-over can complete at once, whatever
\* the state of that Session.
C4_FanoutNeverWaits ==
    (ctrl.pc = "fanout" /\ ctrl.idx <= Len(sessions)) =>
        Len(sessMsgChan[sessions[ctrl.idx]]) < SessChanCap

\* C5: the pending queue of every Session holds at most queueMaxSize (100)
\* entries in every reachable state.
C5_QueueBounded ==
    \A s \in Conns : Len(queue[s]) <= queueMaxSize

\* a full queue from which older entries were evicted
C5_Witness ==
    \E s \in Conns :
        /\ Len(queue[s]) = queueMaxSize
        /\ Head(queue[s]) > 1

\* C6: once N payloads were published to a streaming Session and no flush
\* tick fired, its pending queue holds exactly the most recent min(N, 100)
\* of them, in publish order.
C6_MostRecentKept ==
    \A s \in Conns :
        (sessPc[s] = "streaming" /\ Drained(s)) =>
            queue[s] = MostRecent(published, Min(Len(published), queueMaxSize))

\* more payloads than the capacity were published and all have arrived
C6_Witness ==
    \E s \in Conns :
        /\ sessPc[s] = "streaming"
        /\ Drained(s)
        /\ Len(published) = queueMaxSize + 50
        /\ Len(queue[s]) = queueMaxSize
        /\ Head(queue[s]) = 51

C8_MismatchDisconnects ==
    \A s \in Conns :
        (Mismatched(s) /\ sessPc[s] = "reporting") =>
            /\ connState[s] = "closed"
            /\ \A i \in DOMAIN connLog[s] : connLog[s][i].kind = "header"

\* C9: after a mismatching header the Session has failed and nothing at all
\* was written to the peer; on any connection a length prefix or payload
\* bytes are written only after the response header with the Publisher's
\* md5sum and type.
C9_NothingWrittenOnMismatch ==
    \A s \in Conns :
        /\ Mismatched(s) => (sessPc[s] = "reporting" /\ connLog[s] = <<>>)
        /\ \A i \in DOMAIN connLog[s] :
              IF i = 1
              THEN connLog[s][i] = [kind |-> "header", md5sum |-> pubMD5Sum,
                                    type |-> pubTypeName]
              ELSE connLog[s][i].kind \in {"len", "body"}

\* a Session rejected its peer while a payload was waiting for it
C9_Witness ==
    \E s \in Conns :
        /\ Mismatched(s)
        /\ sessMsgChan[s] # <<>>

\* C10: the bytes written after the handshake are complete frames: every
\* length prefix that is followed by another length prefix was written in
\* full and is followed at once by all the bytes of its own payload.
C10_CompleteFrames ==
    \A s \in Conns :
        \A i \in DOMAIN connLog[s] :
            (/\ connLog[s][i].kind = "len"
             /\ \E j \in DOMAIN connLog[s] : j > i /\ connLog[s][j].kind = "len")
            => /\ connLog[s][i].full
               /\ connLog[s][i + 1] =
                      [kind |-> "body", msg |-> connLog[s][i].msg, full |-> TRUE]

(***************************************************************************)
(* Claims about Node.Shutdown and the liveness flag (SpecDown, SpecJobs).  *)
(***************************************************************************)
\* the phase of Node.Shutdown a step finishes, "" when it finishes none
Finishes == IF Len(phases') > Len(phases) THEN Last(phases') ELSE ""

TaskStep ==
    \/ \E n \in Names : SubRecvPubList(n)
    \/ \E n \in Names : SubExit(n)
    \/ RpcServerStop
    \/ \E n \in Names : NodeShutdownSubscriber(n)
    \/ NodeSubscribersDone
    \/ NodeShutdownPublisher
    \/ NodePublishersDone
    \/ \E n \in Names : NodeShutdownServer(n)
    \/ NodeServersDone
    \/ NodeWait
    \/ NodeCloseListener
    \/ NodeWaitServer
    \/ CtrlListenerError
    \/ CtrlShutdown
    \/ CtrlQuitSession
    \/ CtrlQuitDone
    \/ \E c \in Conns : AcceptConn(c)
    \/ AcceptError
    \/ \E s \in Conns : SessReadHeader(s)
    \/ \E s \in Conns : SessWriteHeader(s)

\* C12: Node.Shutdown never deadlocks; as long as a call of Node.Shutdown
\* has not returned, its caller or some task can take a step
C12_ShutdownNeverStuck ==
    nodePc \notin {"idle", "returned"} => ENABLED TaskStep

\* C13: after Node.Shutdown has returned, the control task of the
\* publisher, its accept loop and every session task have exited and the
\* peer-facing RPC listener is closed; a task that can still run to its end
\* is not held against the claim
C13_AllTasksExited ==
    nodePc = "returned" =>
        /\ rpcListener = "closed"
        /\ PublisherStarted => ctrl.pc = "done"
        /\ \A s \in Conns : sessPc[s] \in {"none", "returned"}
        /\ acceptPc = "exited" \/ ENABLED (AcceptError \/ CtrlListenerError)

\* C14: after Node.Shutdown has returned the job queue of the node accepts
\* no further item; no step taken after the return puts a job on it
C14_NoJobAfterShutdown ==
    [][nodePc = "returned" => jobChan' = jobChan]_vars

\* C15: the liveness flag is monotonic; under every interleaving of the
\* signal handler, the shutdown call of the slave API and Node.Shutdown, no
\* step makes node.ok true once it is false
C15_OkMonotonic ==
    [][~ok => ~ok']_vars

\* the signal handler, the shutdown call and Node.Shutdown have all written
\* the flag
C15_Witness ==
    /\ ~ok
    /\ okWriters = {"interrupt", "shutdown", "Shutdown"}

(***************************************************************************)
(* Claims about the slave API (SpecSlave).                                 *)
(***************************************************************************)
\* the step answers a call of the method
Answers(method) == rpcCalls' = rpcCalls + 1 /\ rpcResult'.method = method

\* C16: publisherUpdate(topic, uris) answers failure (0) with the message
\* "No such topic" and changes nothing else when no subscriber is registered
\* under topic; otherwise it answers success (1) and uris, as it is, is
\* put on the channel of that subscriber and of no other
C16_PublisherUpdateRouted ==
    [][Answers("publisherUpdate") =>
        LET r == rpcResult' IN
        IF subscribers[r.topic].id = NoObj
        THEN /\ r.code = 0
             /\ r.message = "No such topic"
             /\ UNCHANGED <<remapTable, publishers, subscribers, masterCalls,
                            nextObj, pubReturns, subReturns, exited, subTask,
                            pubListChan>>
             /\ UNCHANGED <<ok, okWriters, handlerPc, nodePc, phases, jobChan,
                            servers, rpcListener, rpcServer>>
             /\ UNCHANGED <<pubVars, sessVars, spinVars>>
        ELSE /\ r.code = 1
             /\ pubListChan'[r.topic] = Append(pubListChan[r.topic], r.arg)
             /\ \A n \in Names \ {r.topic} : pubListChan'[n] = pubListChan[n]
             /\ UNCHANGED subscribers ]_vars

\* the second call answered was a publisherUpdate that delivered a list of
\* two addresses to the subscriber of "b"
C16_Witness ==
    /\ rpcCalls = 2
    /\ rpcResult.method = "publisherUpdate"
    /\ rpcResult.topic = "b"
    /\ rpcResult.code = 1
    /\ rpcResult.arg = <<"u2", "u1">>
    /\ pubListChan["b"] # <<>>
    /\ Last(pubListChan["b"]) = <<"u2", "u1">>

\* C17: requestTopic(topic, protocols) answers success with the triple
\* TCPROS, host, port of the publisher's listener if the topic is published
\* and TCPROS is among the protocols, and answers failure (0) with the
\* message "No such topic" in every other case
C17_RequestTopicAnswer ==
    [][Answers("requestTopic") =>
        LET r == rpcResult'
            offered == {r.arg[i] : i \in 1..Len(r.arg)}
        IN  IF publishers[r.topic] # NoObj /\ "TCPROS" \in offered
            THEN /\ r.code = 1
                 /\ r.value = <<"TCPROS">> \o hostAndPort(publishers[r.topic])
            ELSE /\ r.code = 0
                 /\ r.message = "No such topic" ]_vars

(***************************************************************************)
(* Claims about the end of a publisher and of its sessions (Spec,          *)
(* SpecDown).                                                              *)
(***************************************************************************)
\* C18: after a call of Publisher.Shutdown the control task comes to its
\* end, whatever the state of the sessions; once it has taken the shutdown
\* signal it can signal the next session or finish, or a session that is
\* still in its handshake can go on towards its streaming loop
C18_PublisherShutdownCompletes ==
    ctrl.pc = "quit" =>
        ENABLED (\/ CtrlQuitSession
                 \/ CtrlQuitDone
                 \/ \E s \in Conns : SessReadHeader(s)
                 \/ \E s \in Conns : SessWriteHeader(s))

\* C19: a session that ends on a handshake failure or an I/O error reports
\* the error to the control task, which then removes it from the live set;
\* a failed session that stands at its report while the control task waits
\* in its select can hand its error over
C19_FailedSessionReported ==
    \A s \in Conns :
        (sessPc[s] = "reporting" /\ ctrl.pc = "select")
            => ENABLED CtrlSessionError(s)

\* the control task of the publisher has ended on a listener error: it has
\* returned without having called unregisterPublisher
EndedByListenerError == ctrl.pc = "done" /\ unregCalls = 0

\* C20: a listener error ends only its publisher, whose control task tears
\* its own state down: the listener is closed, the sessions have been told
\* to quit and have ended, the live set is empty; and a call of
\* Node.Shutdown made afterwards is not stuck
C20_ListenerErrorTearsDown ==
    EndedByListenerError =>
        /\ listener = "closed"
        /\ sessions = <<>>
        /\ \A s \in Conns : sessPc[s] \in {"none", "returned"}
        /\ nodePc \notin {"idle", "returned"} => ENABLED TaskStep

(***************************************************************************)
(* Claims about interrupts and Spin (SpecSpin).                            *)
(***************************************************************************)
\* C21: an interrupt signal is never lost; once a signal was sent to the
\* process, at whatever moment after the construction of the node, the
\* liveness flag is false
C21_InterruptNotLost ==
    signals > 0 => ~ok

(***************************************************************************)
(* Claims about shared data: the live-session set and the registries.      *)
(***************************************************************************)
\* a step of the control task of the publisher
CtrlTaskStep ==
    \/ CtrlRecvMsg
    \/ CtrlSend
    \/ CtrlFanoutDone
    \/ CtrlListenerError
    \/ CtrlShutdown
    \/ CtrlQuitSession
    \/ CtrlQuitDone
    \/ \E s \in Conns : CtrlSessionError(s)

\* C22: the live-session set of a publisher is mutated by its control task
\* only; every step that changes pub.sessions is a step of the control task
C22_SessionsSingleWriter ==
    [][sessions' # sessions => CtrlTaskStep]_vars

\* C23: a registry of the node is read, written or iterated under its lock
\* only, so that nothing mutates a registry while another task iterates it;
\* while Node.Shutdown is in its loop over node.subscribers no step changes
\* node.subscribers, and likewise for node.publishers
C23_RegistriesLocked ==
    [][ /\ nodePc = "subscribers" => subscribers' = subscribers
        /\ nodePc = "publishers" => publishers' = publishers ]_vars

(***************************************************************************)
(* Claims about the flush of a streaming session (Spec, SpecFlush).        *)
(***************************************************************************)
\* C24: when the write deadline expires in a flush the session stays in its
\* streaming loop without an error and the entry stays the next one to be
\* delivered; any other write error ends the session.  For every tick: the
\* front entry was written in full, or the session goes on streaming with
\* that entry still at the front of its queue, or the session has ended
C24_TimeoutRetried ==
    [][\A s \in Conns : SessTick(s) =>
        LET m == Head(queue[s])
            delivered ==
                /\ Len(connLog'[s]) > Len(connLog[s])
                /\ Last(connLog'[s]) = [kind |-> "body", msg |-> m, full |-> TRUE]
        IN  \/ delivered /\ sessPc'[s] = "streaming"
            \/ /\ ~delivered
               /\ sessPc'[s] = "streaming"
               /\ sessErr'[s] = "none"
               /\ queue'[s] # <<>>
               /\ Head(queue'[s]) = m
            \/ ~delivered /\ sessPc'[s] # "streaming" ]_vars

\* C25: the flush of a streaming session is periodic and is not starved by
\* arriving payloads; while entries are pending, no more than the flush
\* interval passes without a tick of the flush timer, however many payloads
\* arrive in between
C25_FlushNotStarved ==
    \A s \in Conns :
        (sessPc[s] = "streaming" /\ queue[s] # <<>>)
            => sinceTick[s] <= FlushInterval

====
